---- MODULE Spec2Model ----
(***************************************************************************)
(* The two resumable enrichment orchestrators of the repository:           *)
(*   "thread": run_transformation of src/pipeline/transformation.py        *)
(*             (ThreadPoolExecutor, Google Books),                         *)
(*   "async" : ingest_books_async of src/ingestion/ingest.py               *)
(*             (asyncio tasks behind a semaphore, Open Library),           *)
(* together with the checkpoint file they write through save_atomic, a     *)
(* hard kill of the process at any step, and a later re-run (resume).      *)
(***************************************************************************)
EXTENDS Integers, Sequences, FiniteSets, TLC

VARIABLES
    orch,           \* which orchestrator runs: "thread" or "async"
    inputOK,        \* the input table exists
    resp,           \* resp[r][a]: the provider's (deterministic) answer to adapter a for row r
    files,          \* the file system: path -> content
    phase,          \* position of the main flow of the current process
    mode,           \* "normal", "interrupted" (SIGINT received), "failed" (exception escaped)
    saved,          \* the in-memory result list
    seen,           \* the in-memory set of seen book_keys
    rowst,          \* per input row: where its processing stands
    savePc,         \* position inside save_atomic: "idle", "open", "dump", "replace"
    runs,           \* number of processes started so far
    queried,        \* history: <<row, adapter>> queries issued by the current process
    seen0,          \* history: seen_keys as loaded at the start of the current process
    out0,           \* history: the checkpoint file as it was when the current process started
    finishedAtInt,  \* history: rows whose result was already computed when SIGINT arrived
    fn,             \* the function under study ("none" while an orchestrator runs)
    arg,            \* its input
    ret             \* what it has computed so far

\* the orchestrators' state
ovars == <<orch, inputOK, resp, files, phase, mode, saved, seen, rowst, savePc,
           runs, queried, seen0, out0, finishedAtInt>>

\* the state of one call of a pure function (normalisation, cleaning, ranking)
fvars == <<fn, arg, ret>>

vars == <<ovars, fvars>>

-----------------------------------------------------------------------------
(* Bounds of the model.  The program's MAX_WORKERS = 5, BATCH_SIZE = 200,   *)
(* SAVE_EVERY = 10 / 100 and CONCURRENCY_LIMIT = 10 are scaled down so that *)
(* a table of NumRows rows fills the pool, spans two batches and crosses a  *)
(* periodic save.                                                           *)
NumRows == 3
MaxRuns == 2
MAX_WORKERS == 2
BATCH_SIZE == 2
SAVE_EVERY == 2
CONCURRENCY_LIMIT == 2

Rows == 1..NumRows
Paths == {"out", "tmp"}

(* The input table.  Rows 2k-1 and 2k carry the same title and (no) ISBN    *)
(* but different authors: after cleaning they are distinct rows with        *)
(* distinct record_id and the same book_key.                                *)
RowKey(r) == (r + 1) \div 2

(* ingest.py fetch_book: the short-title adapter is tried only for titles   *)
(* holding a colon.                                                         *)
HasColon(r) == r % 2 = 1

(* Provider answers: a well-formed match, nothing found, a transport or     *)
(* decoding error, or a match whose payload is incomplete (an               *)
(* industryIdentifiers entry without "type").                               *)
Resp == {"match", "none", "error", "incomplete"}

Profiles ==
    { <<"error", "none", "none">>,
      <<"none", "match", "match">>,
      <<"incomplete", "none", "none">> }

-----------------------------------------------------------------------------
(* Files *)
Absent == [st |-> "absent", items |-> <<>>]
Corrupt == [st |-> "corrupt", items |-> <<>>]
Partial == [st |-> "partial", items |-> <<>>]
Complete(data) == [st |-> "complete", items |-> data]

\* a save that writes the output path in place
TmpPathInPlace(p) == p

\* save_atomic: tmp = output_json.with_suffix(".tmp")
TmpPath(p) == "tmp"

\* os.replace(src, dst)
Replace(fs, src, dst) ==
    IF src = dst THEN fs
    ELSE [fs EXCEPT ![dst] = fs[src], ![src] = Absent]

\* a lenient loader that swallows the decoding error
LoadRaisesNever(f) == FALSE

\* load_existing: json.load raises on a file that is not one JSON document
LoadRaises(f) == f.st \in {"corrupt", "partial"}

\* a run that starts from an empty list whatever the checkpoint holds
LoadExistingEmpty(f) == <<>>

\* load_existing: the stored list, [] when the file does not exist
LoadExisting(f) == IF f.st = "complete" THEN f.items ELSE <<>>

\* a seen set built from record_id instead of book_key
SeenKeysByRecordId(list) == {list[i].rid : i \in 1..Len(list)}

\* seen = {r["book_key"] for r in saved}
SeenKeys(list) == {list[i].key : i \in 1..Len(list)}

\* a membership test that never finds the key
AlreadySeenNever(k, s) == FALSE

\* the membership test `book_key in seen`
AlreadySeen(k, s) == k \in s

\* a pool that starts work whatever the number of rows in flight
SlotFreeAlways(n, limit) == TRUE

\* ThreadPoolExecutor(max_workers=limit) / asyncio.Semaphore(limit): a row
\* starts only while fewer than limit rows hold a slot
SlotFree(n, limit) == n < limit

\* a loop that appends while save_atomic is under way
NotSavingAlways(pc) == TRUE

\* the thread (event loop) that appends is the one that runs save_atomic,
\* inside `with lock` / without an await: it appends only between two saves
NotSaving(pc) == pc = "idle"

\* a run without periodic saves
ShouldSaveNever(n) == FALSE

\* if len(saved) % SAVE_EVERY == 0: save_atomic(saved)
ShouldSave(n) == n % SAVE_EVERY = 0

\* an append that does not record the key
AddSeenForgets(s, k) == s

\* seen.add(result["book_key"]) / seen_keys.add(book_key)
AddSeen(s, k) == s \cup {k}

-----------------------------------------------------------------------------
(* One row's adapter chain *)

\* transformation.py process_row: ISBN search, then title+author (a missing
\* ISBN cell is read as NaN, which is truthy, so the ISBN search always runs);
\* ingest.py fetch_book: strict, short title (colon only), title only (the
\* author is str(...) of the cell, never empty for a table read by pandas).
Chain(r) ==
    IF orch = "thread" THEN <<1, 2>>
    ELSE IF HasColon(r) THEN <<1, 2, 3>> ELSE <<1, 3>>

\* query_google_books / search_openlibrary: errors are caught and give None;
\* anything else that carries a first item is returned as it is.
Hit(x) == x \in {"match", "incomplete"}

\* position in Chain(r) of the first adapter that returns a hit, 0 if none
RECURSIVE FirstHitFrom(_, _)
FirstHitFrom(r, i) ==
    IF i > Len(Chain(r)) THEN 0
    ELSE IF Hit(resp[r][Chain(r)[i]]) THEN i
    ELSE FirstHitFrom(r, i + 1)

FirstHit(r) == FirstHitFrom(r, 1)

\* a chain that queries every adapter whatever the earlier ones returned
QueriedByAll(r) == {<<r, Chain(r)[i]>> : i \in 1..Len(Chain(r))}

\* the adapters queried for row r: the chain up to the first hit
QueriedBy(r) ==
    LET n == IF FirstHit(r) = 0 THEN Len(Chain(r)) ELSE FirstHit(r)
    IN  {<<r, Chain(r)[i]>> : i \in 1..n}

\* transformation.py extract_book_info runs outside every try block: an
\* incomplete payload raises KeyError out of process_row.  ingest.py stores
\* the payload unparsed.
ExtractRaises(r) ==
    /\ orch = "thread"
    /\ FirstHit(r) # 0
    /\ resp[r][Chain(r)[FirstHit(r)]] = "incomplete"

Outcome(r) ==
    IF FirstHit(r) = 0 THEN "MISSING"
    ELSE IF ExtractRaises(r) THEN "RAISE"
    ELSE "FOUND"

Result(r) == [rid |-> r, key |-> RowKey(r), status |-> Outcome(r)]

-----------------------------------------------------------------------------
InState(s) == {r \in Rows : rowst[r] = s}
Min(S) == CHOOSE x \in S : \A y \in S : x <= y

Init ==
    /\ orch \in {"thread", "async"}
    /\ inputOK \in BOOLEAN
    /\ resp \in [Rows -> Profiles]
    /\ files \in {[p \in Paths |-> IF p = "out" THEN f ELSE Absent] : f \in {Absent, Corrupt}}
    /\ phase = "Start"
    /\ mode = "normal"
    /\ saved = <<>>
    /\ seen = {}
    /\ rowst = [r \in Rows |-> "pending"]
    /\ savePc = "idle"
    /\ runs = 1
    /\ queried = {}
    /\ seen0 = {}
    /\ out0 = files["out"]
    /\ finishedAtInt = {}
    /\ fn = "none"
    /\ arg = <<>>
    /\ ret = <<>>

\* run_transformation lines 167-191 / ingest_books_async lines 161-185
StartRun ==
    /\ phase = "Start"
    /\ IF ~inputOK \/ LoadRaises(files["out"])
       THEN /\ phase' = "Aborted"
            /\ UNCHANGED <<saved, seen, seen0, rowst>>
       ELSE /\ phase' = "Draining"
            /\ saved' = LoadExisting(files["out"])
            /\ seen' = SeenKeys(saved')
            /\ seen0' = seen'
            /\ rowst' = [r \in Rows |->
                  IF orch = "thread" /\ AlreadySeen(RowKey(r), seen')
                  THEN "skipped" ELSE "pending"]
    /\ UNCHANGED <<fvars, orch, inputOK, resp, files, mode, savePc, runs, queried, out0, finishedAtInt>>

-----------------------------------------------------------------------------
(* save_atomic, one file-system operation per step.  The caller sets       *)
(* savePc = "open"; a kill may fall between any two steps.                 *)

\* open(tmp, "w"): the temporary file exists and is truncated
SaveOpen ==
    /\ phase \in {"Draining", "Flushing"}
    /\ savePc = "open"
    /\ files' = [files EXCEPT ![TmpPath("out")] = Partial]
    /\ savePc' = "dump"
    /\ UNCHANGED <<fvars, orch, inputOK, resp, phase, mode, saved, seen, rowst, runs,
                   queried, seen0, out0, finishedAtInt>>

\* json.dump(data, f) and the close of the with block
SaveDump ==
    /\ phase \in {"Draining", "Flushing"}
    /\ savePc = "dump"
    /\ files' = [files EXCEPT ![TmpPath("out")] = Complete(saved)]
    /\ savePc' = "replace"
    /\ UNCHANGED <<fvars, orch, inputOK, resp, phase, mode, saved, seen, rowst, runs,
                   queried, seen0, out0, finishedAtInt>>

\* os.replace(tmp, output_json); the final flush is the last statement of the run
SaveReplace ==
    /\ phase \in {"Draining", "Flushing"}
    /\ savePc = "replace"
    /\ files' = Replace(files, TmpPath("out"), "out")
    /\ savePc' = "idle"
    /\ phase' = IF phase = "Flushing" THEN "Done" ELSE phase
    /\ UNCHANGED <<fvars, orch, inputOK, resp, mode, saved, seen, rowst, runs,
                   queried, seen0, out0, finishedAtInt>>

-----------------------------------------------------------------------------
(* run_transformation (thread pool) *)

Busy == InState("queued") \cup InState("running") \cup InState("completed")

\* lines 195-201: the next BATCH_SIZE rows of the work set are submitted at once
NextBatch ==
    {r \in InState("pending") :
        Cardinality({q \in InState("pending") : q < r}) < BATCH_SIZE}

SubmitBatch ==
    /\ orch = "thread" /\ phase = "Draining" /\ mode = "normal" /\ savePc = "idle"
    /\ Busy = {}
    /\ InState("pending") # {}
    /\ rowst' = [r \in Rows |-> IF r \in NextBatch THEN "queued" ELSE rowst[r]]
    /\ UNCHANGED <<fvars, orch, inputOK, resp, files, phase, mode, saved, seen, savePc,
                   runs, queried, seen0, out0, finishedAtInt>>

\* a pool thread takes the oldest queued work item and runs process_row:
\* lines 115-127, the adapter queries are issued
WorkerStart ==
    /\ orch = "thread" /\ phase = "Draining"
    /\ InState("queued") # {}
    /\ SlotFree(Cardinality(InState("running")), MAX_WORKERS)
    /\ LET r == Min(InState("queued")) IN
        /\ rowst' = [rowst EXCEPT ![r] = "running"]
        /\ queried' = queried \cup QueriedBy(r)
    /\ UNCHANGED <<fvars, orch, inputOK, resp, files, phase, mode, saved, seen, savePc,
                   runs, seen0, out0, finishedAtInt>>

\* process_row returns or raises: the future is done
WorkerFinish(r) ==
    /\ orch = "thread" /\ phase = "Draining"
    /\ rowst[r] = "running"
    /\ rowst' = [rowst EXCEPT ![r] = "completed"]
    /\ UNCHANGED <<fvars, orch, inputOK, resp, files, phase, mode, saved, seen, savePc,
                   runs, queried, seen0, out0, finishedAtInt>>

\* lines 203-216: as_completed yields a done future; future.result() re-raises
\* what process_row raised, otherwise the result is appended under the lock
Collect(r) ==
    /\ orch = "thread" /\ phase = "Draining" /\ mode = "normal" /\ NotSaving(savePc)
    /\ rowst[r] = "completed"
    /\ rowst' = [rowst EXCEPT ![r] = "collected"]
    /\ IF Outcome(r) = "RAISE"
       THEN /\ mode' = "failed"
            /\ UNCHANGED <<saved, seen, savePc>>
       ELSE /\ saved' = Append(saved, Result(r))
            /\ seen' = AddSeen(seen, RowKey(r))
            /\ savePc' = IF ShouldSave(Len(saved')) THEN "open" ELSE "idle"
            /\ mode' = mode
    /\ UNCHANGED <<fvars, orch, inputOK, resp, files, phase, runs, queried, seen0, out0,
                   finishedAtInt>>

\* the for loops end: line 223, the final save_atomic
LoopEnd ==
    /\ orch = "thread" /\ phase = "Draining" /\ mode = "normal" /\ savePc = "idle"
    /\ Busy = {} /\ InState("pending") = {}
    /\ phase' = "Flushing"
    /\ savePc' = "open"
    /\ UNCHANGED <<fvars, orch, inputOK, resp, files, mode, saved, seen, rowst, runs,
                   queried, seen0, out0, finishedAtInt>>

\* KeyboardInterrupt raised in the main thread inside the try block (a
\* save_atomic in progress is abandoned where it stands); the exception first
\* leaves the `with ThreadPoolExecutor` block
InterruptThread ==
    /\ orch = "thread" /\ phase = "Draining" /\ mode = "normal"
    /\ mode' = "interrupted"
    /\ savePc' = "idle"
    /\ finishedAtInt' = {r \in InState("completed") \cup InState("collected") :
                            Outcome(r) # "RAISE"}
    /\ UNCHANGED <<fvars, orch, inputOK, resp, files, phase, saved, seen, rowst, runs,
                   queried, seen0, out0>>

\* ThreadPoolExecutor.__exit__ is shutdown(wait=True): it returns once every
\* submitted future has run.  Then lines 218-221 save and return, while any
\* other exception leaves run_transformation without a save.
ShutdownDone ==
    /\ orch = "thread" /\ phase = "Draining" /\ mode # "normal"
    /\ InState("queued") = {} /\ InState("running") = {}
    /\ IF mode = "interrupted"
       THEN phase' = "Flushing" /\ savePc' = "open"
       ELSE phase' = "Crashed" /\ savePc' = savePc
    /\ UNCHANGED <<fvars, orch, inputOK, resp, files, mode, saved, seen, rowst, runs,
                   queried, seen0, out0, finishedAtInt>>

-----------------------------------------------------------------------------
(* ingest_books_async (asyncio).  The event loop runs one task at a time    *)
(* and save_atomic has no await in it: while savePc # "idle" no task runs.  *)

Holding == InState("running") \cup InState("sleeping")

\* process_row lines 120-133: the oldest waiting task enters the semaphore,
\* returns at once when its book_key is already seen, else starts fetch_book
TaskBegin ==
    /\ orch = "async" /\ phase = "Draining" /\ savePc = "idle"
    /\ InState("pending") # {}
    /\ SlotFree(Cardinality(Holding), CONCURRENCY_LIMIT)
    /\ LET r == Min(InState("pending")) IN
        IF AlreadySeen(RowKey(r), seen)
        THEN /\ rowst' = [rowst EXCEPT ![r] = "done"]
             /\ UNCHANGED queried
        ELSE /\ rowst' = [rowst EXCEPT ![r] = "running"]
             /\ queried' = queried \cup QueriedBy(r)
    /\ UNCHANGED <<fvars, orch, inputOK, resp, files, phase, mode, saved, seen, savePc,
                   runs, seen0, out0, finishedAtInt>>

\* process_row lines 133-156: fetch_book has returned; a miss returns without
\* recording anything, a match is appended and may trigger save_atomic
TaskFetched(r) ==
    /\ orch = "async" /\ phase = "Draining" /\ NotSaving(savePc)
    /\ rowst[r] = "running"
    /\ IF Outcome(r) = "MISSING"
       THEN /\ rowst' = [rowst EXCEPT ![r] = "done"]
            /\ UNCHANGED <<saved, seen, savePc>>
       ELSE /\ rowst' = [rowst EXCEPT ![r] = "sleeping"]
            /\ saved' = Append(saved, Result(r))
            /\ seen' = AddSeen(seen, RowKey(r))
            /\ savePc' = IF ShouldSave(Len(saved')) THEN "open" ELSE "idle"
    /\ UNCHANGED <<fvars, orch, inputOK, resp, files, phase, mode, runs, queried, seen0,
                   out0, finishedAtInt>>

\* line 156: asyncio.sleep(0.1) is over, the semaphore is released
TaskEnd(r) ==
    /\ orch = "async" /\ phase = "Draining" /\ savePc = "idle"
    /\ rowst[r] = "sleeping"
    /\ rowst' = [rowst EXCEPT ![r] = "done"]
    /\ UNCHANGED <<fvars, orch, inputOK, resp, files, phase, mode, saved, seen, savePc,
                   runs, queried, seen0, out0, finishedAtInt>>

\* lines 188-197: every task is done, the session closes, the final save
GatherEnd ==
    /\ orch = "async" /\ phase = "Draining" /\ savePc = "idle"
    /\ \A r \in Rows : rowst[r] = "done"
    /\ phase' = "Flushing"
    /\ savePc' = "open"
    /\ UNCHANGED <<fvars, orch, inputOK, resp, files, mode, saved, seen, rowst, runs,
                   queried, seen0, out0, finishedAtInt>>

\* SIGINT: asyncio cancels the main task, which is waiting in `await coro`;
\* lines 192-193 break out of the loop and line 197 saves.  The tasks that
\* are not done are never resumed (asyncio.run cancels them on the way out).
InterruptAsync ==
    /\ orch = "async" /\ phase = "Draining" /\ savePc = "idle"
    /\ \E r \in Rows : rowst[r] # "done"
    /\ mode' = "interrupted"
    /\ finishedAtInt' = {r \in Rows : \E i \in 1..Len(saved) :
                            saved[i].rid = r /\ rowst[r] \in {"sleeping", "done"}}
    /\ rowst' = [r \in Rows |-> IF rowst[r] = "done" THEN "done" ELSE "cancelled"]
    /\ phase' = "Flushing"
    /\ savePc' = "open"
    /\ UNCHANGED <<fvars, orch, inputOK, resp, files, saved, seen, runs, queried, seen0, out0>>

-----------------------------------------------------------------------------
(* The process and its environment *)

\* the process is killed (SIGKILL, power loss): memory is gone, files stay
Kill ==
    /\ phase \in {"Draining", "Flushing"}
    /\ phase' = "Killed"
    /\ mode' = "normal"
    /\ saved' = <<>>
    /\ seen' = {}
    /\ rowst' = [r \in Rows |-> "pending"]
    /\ savePc' = "idle"
    /\ finishedAtInt' = {}
    /\ queried' = {}
    /\ seen0' = {}
    /\ out0' = files["out"]
    /\ UNCHANGED <<fvars, orch, inputOK, resp, files, runs>>

\* the operator runs the script again on the same input and checkpoint
Resume ==
    /\ phase \in {"Killed", "Done", "Crashed", "Aborted"}
    /\ runs < MaxRuns
    /\ runs' = runs + 1
    /\ phase' = "Start"
    /\ mode' = "normal"
    /\ saved' = <<>>
    /\ seen' = {}
    /\ rowst' = [r \in Rows |-> "pending"]
    /\ savePc' = "idle"
    /\ queried' = {}
    /\ seen0' = {}
    /\ out0' = files["out"]
    /\ finishedAtInt' = {}
    /\ UNCHANGED <<fvars, orch, inputOK, resp, files>>

Next ==
    \/ StartRun
    \/ SaveOpen
    \/ SaveDump
    \/ SaveReplace
    \/ SubmitBatch
    \/ WorkerStart
    \/ \E r \in Rows : WorkerFinish(r)
    \/ \E r \in Rows : Collect(r)
    \/ LoopEnd
    \/ InterruptThread
    \/ ShutdownDone
    \/ TaskBegin
    \/ \E r \in Rows : TaskFetched(r)
    \/ \E r \in Rows : TaskEnd(r)
    \/ GatherEnd
    \/ InterruptAsync
    \/ Kill
    \/ Resume

Spec == Init /\ [][Next]_vars

-----------------------------------------------------------------------------
(* The two recommenders: retrieval, hybrid score, sort, truncation *)

\* the orchestrators are not running while a pure function is studied
OrchOff ==
    /\ orch = "thread"
    /\ inputOK = TRUE
    /\ resp = [r \in Rows |-> <<"none", "none", "none">>]
    /\ files = [p \in Paths |-> Absent]
    /\ phase = "Off"
    /\ mode = "normal"
    /\ saved = <<>>
    /\ seen = {}
    /\ rowst = [r \in Rows |-> "idle"]
    /\ savePc = "idle"
    /\ runs = 1
    /\ queried = {}
    /\ seen0 = {}
    /\ out0 = Absent
    /\ finishedAtInt = {}

MaxCorpus == 3      \* books in the corpus
PoolSize == 2       \* CANDIDATE_POOL (30) / candidate_pool (50), scaled
MaxTopK == 3        \* largest top_k requested

\* top_k: int, unvalidated
TopKs == (0 - 1)..MaxTopK

\* similarity and cross-encoder scores, in hundredths
Scores == {85, 90}

Digits(n) == [kind |-> "digits", n |-> n]
Text == [kind |-> "text", n |-> 0]

\* a pages cell: NaN, or a string of digit runs and other text
NaNCell == [str |-> FALSE, toks |-> <<>>]
Str(toks) == [str |-> TRUE, toks |-> toks]
PagesCells(engine) ==
    IF engine = "advanced"
    THEN {Str(<<Digits(320)>>), Str(<<Text, Digits(50), Text>>)}
    ELSE {NaNCell, Str(<<Text, Digits(320), Text>>)}

\* self.books_df.fillna("")
Fillna(cell) == IF cell.str THEN cell ELSE Str(<<>>)

RECURSIVE FirstDigits(_)
\* re.search(r"\d+", pages): the first run of digits, 0 when there is none
FirstDigits(toks) ==
    IF toks = <<>> THEN 0
    ELSE IF Head(toks).kind = "digits" THEN Head(toks).n
    ELSE FirstDigits(Tail(toks))

\* extract_page_count (advanced: 0.0; basic: None, then fillna(0))
extract_page_count(cell) == IF ~cell.str THEN 0 ELSE FirstDigits(cell.toks)

\* the books a corpus can hold: the advanced engine reads no summary, the
\* basic one has no cross-encoder
Books(engine) ==
    IF engine = "advanced"
    THEN [sim : Scores, cross : Scores, pages : PagesCells(engine), summary : {TRUE}]
    ELSE [sim : Scores, cross : {0}, pages : PagesCells(engine), summary : BOOLEAN]

Corpora(engine) == UNION {[1..n -> Books(engine)] : n \in 1..MaxCorpus}

Perms(n) == {p \in [1..n -> 1..n] : \A i, j \in 1..n : p[i] = p[j] => i = j}

MinOf(a, b) == IF a < b THEN a ELSE b
MaxOf(a, b) == IF a > b THEN a ELSE b

Reverse(s) == [i \in 1..Len(s) |-> s[Len(s) + 1 - i]]

\* np.argsort(similarity_scores), kind quicksort: some ascending order, the
\* order of equal scores is not determined
Argsorts(corpus) ==
    {p \in Perms(Len(corpus)) :
        \A i, j \in 1..Len(corpus) : i < j => corpus[p[i]].sim <= corpus[p[j]].sim}

\* s[-k:]
LastK(s, k) == SubSeq(s, MaxOf(1, Len(s) - k + 1), Len(s))

\* np.argsort(similarity_scores)[-candidate_pool:][::-1]
BasicRetrievals(corpus) == {Reverse(LastK(p, PoolSize)) : p \in Argsorts(corpus)}

\* faiss_index.search(query_vec, CANDIDATE_POOL): the best PoolSize ids by
\* inner product, best first, filled up with -1 when the index is smaller
FaissSearches(corpus) ==
    {[i \in 1..PoolSize |-> IF i <= Len(corpus) THEN Reverse(p)[i] ELSE 0 - 1] :
        p \in Argsorts(corpus)}

\* books_df.iloc[ids]: a negative position counts from the end
Iloc(corpus, ids) ==
    [i \in 1..Len(ids) |-> IF ids[i] < 0 THEN Len(corpus) + 1 + ids[i] ELSE ids[i]]

Retrievals(engine, corpus) ==
    IF engine = "advanced"
    THEN {Iloc(corpus, ids) : ids \in FaissSearches(corpus)}
    ELSE {Iloc(corpus, ids) : ids \in BasicRetrievals(corpus)}

\* summary.notna().astype(int)
summary_bonus(b) == IF b.summary THEN 1 ELSE 0

\* 0.8 * cross_score + 0.2 * depth_score, in units of 1e-5
AdvancedScore(b) == 800 * b.cross + 20 * extract_page_count(Fillna(b.pages))

\* semantic_score alone
BasicScoreFlat(b) == 1000 * b.sim

\* 0.70 * semantic_score + 0.20 * depth_score + 0.10 * summary_bonus, in
\* units of 1e-5
BasicScore(b) ==
    700 * b.sim + 20 * extract_page_count(b.pages) + 10000 * summary_bonus(b)

final_score(engine, b) ==
    IF engine = "advanced" THEN AdvancedScore(b) ELSE BasicScore(b)

\* sort_values("final_score", ascending=False), kind quicksort: the pool
\* positions in some descending order of score, equal scores in any order
SortValues(scores) ==
    {q \in Perms(Len(scores)) :
        \A i, j \in 1..Len(scores) : i < j => scores[q[i]] >= scores[q[j]]}

\* DataFrame.head(k): the first k rows; all but the last -k for negative k
HeadRows(s, k) ==
    IF k >= 0 THEN SubSeq(s, 1, MinOf(k, Len(s)))
    ELSE SubSeq(s, 1, MaxOf(Len(s) + k, 0))

Called == [stage |-> "called"]

ScoreInit ==
    /\ OrchOff
    /\ fn \in {"advanced", "basic"}
    /\ arg \in Corpora(fn)
    /\ ret = Called

\* stage 1: the candidate pool, as corpus positions in retrieval order
Retrieve ==
    /\ ret.stage = "called"
    /\ \E pool \in Retrievals(fn, arg) :
         ret' = [stage |-> "retrieved", pool |-> pool]
    /\ UNCHANGED <<ovars, fn, arg>>

\* stages 2 and 3: score every candidate, sort, keep the head
Rank(top_k) ==
    /\ ret.stage = "retrieved"
    /\ LET scores == [i \in 1..Len(ret.pool) |-> final_score(fn, arg[ret.pool[i]])]
       IN \E ranked \in SortValues(scores) :
            ret' = [stage |-> "ranked", pool |-> ret.pool, scores |-> scores,
                    ranked |-> ranked, top_k |-> top_k,
                    out |-> HeadRows(ranked, top_k)]
    /\ UNCHANGED <<ovars, fn, arg>>

ScoreNext ==
    \/ Retrieve
    \/ \E k \in TopKs : Rank(k)

ScoreSpec == ScoreInit /\ [][ScoreNext]_vars

-----------------------------------------------------------------------------
(* The normalisers of ingest.py and clean.py *)

MaxLen == 3         \* characters in an input string

\* a cell is None / NaN or a string, the string a sequence of characters
None == [none |-> TRUE, s |-> <<>>]
Some(s) == [none |-> FALSE, s |-> s]

\* titles are written with a letter in both cases, a punctuation mark and
\* a blank
TitleChars == {"a", "A", "!", " "}

\* ISBNs are written with digits, the check character x, a dot, a hyphen;
\* "123456789" and "123" stand for that many digits in a row
IsbnChars == {"0", "1", "x", ".", "-", "123456789", "123"}

CharLen(c) == IF c = "123456789" THEN 9 ELSE IF c = "123" THEN 3 ELSE 1

RECURSIVE StrLen(_)
\* len(s)
StrLen(s) == IF s = <<>> THEN 0 ELSE CharLen(Head(s)) + StrLen(Tail(s))

Strings(chars) == UNION {[1..n -> chars] : n \in 0..MaxLen}

LowerChar(c) == IF c = "A" THEN "a" ELSE IF c = "X" THEN "x" ELSE c
UpperChar(c) == IF c = "a" THEN "A" ELSE IF c = "x" THEN "X" ELSE c

\* str.lower()
Lower(s) == [i \in 1..Len(s) |-> LowerChar(s[i])]

\* str.upper()
Upper(s) == [i \in 1..Len(s) |-> UpperChar(s[i])]

RECURSIVE LStrip(_)
LStrip(s) == IF s # <<>> /\ Head(s) = " " THEN LStrip(Tail(s)) ELSE s

RECURSIVE RStrip(_)
RStrip(s) ==
    IF s # <<>> /\ s[Len(s)] = " " THEN RStrip(SubSeq(s, 1, Len(s) - 1)) ELSE s

\* str.strip()
Strip(s) == RStrip(LStrip(s))

RECURSIVE CollapseSpaces(_)
\* re.sub(r"\s+", " ", s)
CollapseSpaces(s) ==
    IF Len(s) < 2 THEN s
    ELSE IF s[1] = " " /\ s[2] = " " THEN CollapseSpaces(Tail(s))
    ELSE <<s[1]>> \o CollapseSpaces(Tail(s))

\* re.sub(r"[^a-z0-9 ]", " ", s)
BlankNonAlnum(s) ==
    [i \in 1..Len(s) |->
        IF s[i] \in {"a", "0", "1", "123456789", "123", " "} THEN s[i] ELSE " "]

IsIsbnChar(c) == c \in {"0", "1", "123456789", "123", "x", "X"}

\* re.sub(r"[^0-9Xx]", "", s)
KeepIsbnChars(s) == SelectSeq(s, IsIsbnChar)

RECURSIVE RemoveDotZero(_)
\* s.replace(".0", "")
RemoveDotZero(s) ==
    IF Len(s) < 2 THEN s
    ELSE IF s[1] = "." /\ s[2] = "0" THEN RemoveDotZero(SubSeq(s, 3, Len(s)))
    ELSE <<s[1]>> \o RemoveDotZero(Tail(s))

\* len(isbn) in (10, 13)
IsbnLengths == {10, 13}

\* ingest.py normalize_title; "not title" also holds for the empty string
normalize_title(v) ==
    IF v.none \/ v.s = <<>> THEN None
    ELSE Some(Strip(CollapseSpaces(BlankNonAlnum(Lower(v.s)))))

\* ingest.py clean_isbn
clean_isbn(v) ==
    IF v.none \/ v.s = <<>> THEN None
    ELSE LET isbn == Upper(KeepIsbnChars(RemoveDotZero(v.s)))
         IN IF StrLen(isbn) \in IsbnLengths THEN Some(isbn) ELSE None

\* clean.py normalize_text
normalize_text(v) ==
    IF v.none THEN None ELSE Some(CollapseSpaces(Lower(Strip(v.s))))

\* clean.py normalize_isbn
normalize_isbn(v) ==
    IF v.none THEN None
    ELSE LET isbn == Upper(KeepIsbnChars(v.s))
         IN IF StrLen(isbn) \in IsbnLengths THEN Some(isbn) ELSE None

NormFns == {"normalize_title", "clean_isbn", "normalize_text", "normalize_isbn"}

NormInputs(f) ==
    {None} \cup {Some(s) : s \in Strings(IF f \in {"normalize_title", "normalize_text"}
                                         THEN TitleChars ELSE IsbnChars)}

Apply(f, v) ==
    CASE f = "normalize_title" -> normalize_title(v)
      [] f = "clean_isbn" -> clean_isbn(v)
      [] f = "normalize_text" -> normalize_text(v)
      [] f = "normalize_isbn" -> normalize_isbn(v)

NormInit ==
    /\ OrchOff
    /\ fn \in NormFns
    /\ arg \in NormInputs(fn)
    /\ ret = Called

\* the normaliser applied to the raw value
Normalize ==
    /\ ret.stage = "called"
    /\ ret' = [stage |-> "once", out |-> Apply(fn, arg)]
    /\ UNCHANGED <<ovars, fn, arg>>

\* the normaliser applied to a value it returned (a re-run over its output)
NormalizeAgain ==
    /\ ret.stage = "once"
    /\ ret' = [stage |-> "twice", out |-> ret.out, again |-> Apply(fn, ret.out)]
    /\ UNCHANGED <<ovars, fn, arg>>

NormNext ==
    \/ Normalize
    \/ NormalizeAgain

NormSpec == NormInit /\ [][NormNext]_vars

-----------------------------------------------------------------------------
(* clean.py: clean_dataframe, and the record ids of the API's dataset *)

TableLen == 3       \* rows in the ingested table

RawTitles == {None, Some(<<"a">>), Some(<<"A", " ">>)}
RawAuthors == {Some(<<"a">>), Some(<<"A", "!">>)}
RawIsbns == {Some(<<"1", "0">>), Some(<<"123456789", "x">>),
             Some(<<"123456789", "-", "x">>)}

RawRows == [title : RawTitles, author_editor : RawAuthors, isbn : RawIsbns]

Tables == UNION {[1..n -> RawRows] : n \in 1..TableLen}

\* the normalised columns of row i; src remembers the input position
NormalizeRow(t, i) ==
    [src |-> i,
     title |-> normalize_text(t[i].title),
     author_editor |-> normalize_text(t[i].author_editor),
     isbn |-> normalize_isbn(t[i].isbn)]

NormalizeColumns(t) == [i \in 1..Len(t) |-> NormalizeRow(t, i)]

\* df["title"].notna()
TitleNotna(r) == ~r.title.none

\* df["isbn"].notna() / .isna()
IsbnNotna(r) == ~r.isbn.none
IsbnIsna(r) == r.isbn.none

\* keep="last"
FirstOccurrencesLast(keys) ==
    {i \in 1..Len(keys) : \A j \in (i + 1)..Len(keys) : keys[j] # keys[i]}

\* keep="first": the positions whose key occurs at no earlier position
FirstOccurrences(keys) ==
    {i \in 1..Len(keys) : \A j \in 1..(i - 1) : keys[j] # keys[i]}

RECURSIVE Pick(_, _, _)
\* the rows at the positions idx, from position i on, in order
Pick(rows, idx, i) ==
    IF i > Len(rows) THEN <<>>
    ELSE (IF i \in idx THEN <<rows[i]>> ELSE <<>>) \o Pick(rows, idx, i + 1)

\* drop_duplicates(subset=..., keep="first"), keys the subset's value per row
DropDuplicates(rows, keys) == Pick(rows, FirstOccurrences(keys), 1)

\* clean.py safe_str
safe_str(v) == IF v.none THEN <<>> ELSE v.s

\* make_record_id: md5 of title|author_editor|isbn, a digest per key string
make_record_id(r) ==
    [md5 |-> safe_str(r.title) \o <<"|">> \o safe_str(r.author_editor)
             \o <<"|">> \o safe_str(r.isbn),
     index |-> 0 - 1]

\* df.index.astype(str): the position of the row
IndexId(i) == [md5 |-> <<>>, index |-> i]

WithId(r, id) ==
    [src |-> r.src, title |-> r.title, author_editor |-> r.author_editor,
     isbn |-> r.isbn, record_id |-> id]

clean_dataframe(t) ==
    LET df == SelectSeq(NormalizeColumns(t), TitleNotna)
        with_isbn == SelectSeq(df, IsbnNotna)
        without_isbn == SelectSeq(df, IsbnIsna)
        a == DropDuplicates(with_isbn,
                            [i \in 1..Len(with_isbn) |-> with_isbn[i].isbn])
        b == DropDuplicates(without_isbn,
                            [i \in 1..Len(without_isbn) |->
                                <<without_isbn[i].title, without_isbn[i].author_editor>>])
        out == a \o b
    IN [i \in 1..Len(out) |-> WithId(out[i], make_record_id(out[i]))]

\* load_recommender: a dataset without a record_id column gets the row
\* positions as ids
EnsureRecordId(rows, has_column) ==
    IF has_column THEN rows
    ELSE [i \in 1..Len(rows) |-> WithId(rows[i], IndexId(i - 1))]

CleanInit ==
    /\ OrchOff
    /\ fn = "clean_dataframe"
    /\ arg \in Tables
    /\ ret = Called

CleanDataframe ==
    /\ ret.stage = "called"
    /\ ret' = [stage |-> "cleaned", rows |-> clean_dataframe(arg)]
    /\ UNCHANGED <<ovars, fn, arg>>

\* the API loads the published rows, with or without their record_id column
LoadRecommender(has_column) ==
    /\ ret.stage = "cleaned"
    /\ ret' = [stage |-> "loaded", rows |-> ret.rows,
               loaded |-> EnsureRecordId(ret.rows, has_column)]
    /\ UNCHANGED <<ovars, fn, arg>>

CleanNext ==
    \/ CleanDataframe
    \/ \E has_column \in BOOLEAN : LoadRecommender(has_column)

CleanSpec == CleanInit /\ [][CleanNext]_vars

-----------------------------------------------------------------------------
(* Two orchestrator instances that save to the same checkpoint file *)

MaxSaves == 2       \* calls of save_atomic per instance

Instances == {1, 2}

\* the result lists the instances hold (row ids stand for the results)
Lists == {<<1>>, <<2>>, <<1, 2>>}

\* f.write through an open file at offset 0: the bytes already there beyond
\* the written ones stay
Written(old, data) ==
    IF old.st = "partial" THEN Complete(data)
    ELSE IF old.st = "complete" /\ Len(old.items) <= Len(data) THEN Complete(data)
    ELSE Corrupt

SharedInit ==
    /\ OrchOff
    /\ fn = "save_atomic"
    /\ arg \in [Instances -> Lists]
    /\ ret = [fs |-> [p \in Paths |-> Absent],
              pc |-> [i \in Instances |-> "idle"],
              fd |-> [i \in Instances |-> "none"],
              n |-> [i \in Instances |-> 0]]

\* open(tmp, "w"): the file at the temporary path is created or truncated;
\* both instances compute the same temporary path
SharedOpen(i) ==
    /\ ret.pc[i] = "idle"
    /\ ret.n[i] < MaxSaves
    /\ ret' = [ret EXCEPT !.fs[TmpPath("out")] = Partial,
                          !.fd[i] = TmpPath("out"),
                          !.pc[i] = "dump"]
    /\ UNCHANGED <<ovars, fn, arg>>

\* json.dump(data, f) and the close of the with block: the bytes go to the
\* file the descriptor is open on, wherever that file is linked by now
SharedDump(i) ==
    /\ ret.pc[i] = "dump"
    /\ ret' = [ret EXCEPT
                 !.fs = [p \in Paths |->
                            IF p = ret.fd[i] THEN Written(ret.fs[p], arg[i])
                            ELSE ret.fs[p]],
                 !.fd[i] = "none",
                 !.pc[i] = "replace"]
    /\ UNCHANGED <<ovars, fn, arg>>

\* os.replace(tmp, output_json): raises FileNotFoundError when the other
\* instance has renamed the temporary file away; an open descriptor follows
\* its file to the output path, one on the replaced file loses its link
SharedReplace(i) ==
    /\ ret.pc[i] = "replace"
    /\ IF ret.fs[TmpPath("out")] = Absent
       THEN ret' = [ret EXCEPT !.pc[i] = "crashed"]
       ELSE ret' = [ret EXCEPT
                      !.fs = Replace(ret.fs, TmpPath("out"), "out"),
                      !.fd = [j \in Instances |->
                                 IF ret.fd[j] = TmpPath("out") THEN "out"
                                 ELSE IF ret.fd[j] = "out" THEN "unlinked"
                                 ELSE ret.fd[j]],
                      !.pc[i] = "idle",
                      !.n[i] = ret.n[i] + 1]
    /\ UNCHANGED <<ovars, fn, arg>>

SharedNext ==
    \/ \E i \in Instances : SharedOpen(i)
    \/ \E i \in Instances : SharedDump(i)
    \/ \E i \in Instances : SharedReplace(i)

SharedSpec == SharedInit /\ [][SharedNext]_vars

-----------------------------------------------------------------------------
(* storage/db.py: run_loader *)

MaxLoads == 2       \* calls of run_loader
MaxRecords == 2     \* records in one enriched JSON file

\* the records of the enriched files: for each of two book_keys two results
\* that differ in content (process_row always writes a book_key)
Records ==
    {[book_key |-> Some(<<"a">>), status |-> "FOUND"],
     [book_key |-> Some(<<"a">>), status |-> "MISSING"],
     [book_key |-> Some(<<"b">>), status |-> "FOUND"],
     [book_key |-> Some(<<"b">>), status |-> "MISSING"]}

\* an input path: no file, or a JSON list of records
NoFile == [exists |-> FALSE, records |-> <<>>]
JsonFile(recs) == [exists |-> TRUE, records |-> recs]
LoaderFiles ==
    {NoFile} \cup {JsonFile(recs) : recs \in UNION {[1..n -> Records] : n \in 0..MaxRecords}}

\* book_key TEXT UNIQUE: a row conflicts with a stored row of the same
\* non-NULL book_key
Conflicts(table, row) ==
    /\ ~row.book_key.none
    /\ \E i \in 1..Len(table) : table[i].book_key = row.book_key

\* INSERT OR REPLACE / an upsert
InsertOrUpdate(table, row) ==
    IF Conflicts(table, row)
    THEN [i \in 1..Len(table) |->
             IF table[i].book_key = row.book_key THEN row ELSE table[i]]
    ELSE Append(table, row)

\* INSERT OR IGNORE INTO books
InsertOrIgnore(table, row) ==
    IF Conflicts(table, row) THEN table ELSE Append(table, row)

RECURSIVE ExecuteMany(_, _)
\* cursor.executemany(insert_sql, rows)
ExecuteMany(table, rows) ==
    IF rows = <<>> THEN table
    ELSE ExecuteMany(InsertOrIgnore(table, Head(rows)), Tail(rows))

LoaderInit ==
    /\ OrchOff
    /\ fn = "run_loader"
    /\ arg = <<>>
    /\ ret = [table |-> <<>>, loads |-> 0, last |-> "none", file |-> NoFile]

\* one call of run_loader on the file found at input_json
RunLoader(file) ==
    /\ ret.loads < MaxLoads
    /\ ret' = [table |-> IF file.exists /\ file.records # <<>>
                         THEN ExecuteMany(ret.table, file.records)
                         ELSE ret.table,
               loads |-> ret.loads + 1,
               last |-> IF ~file.exists THEN "FileNotFoundError"
                        ELSE IF file.records = <<>> THEN "ValueError"
                        ELSE "ok",
               file |-> file]
    /\ UNCHANGED <<ovars, fn, arg>>

LoaderNext == \E file \in LoaderFiles : RunLoader(file)

LoaderSpec == LoaderInit /\ [][LoaderNext]_vars

-----------------------------------------------------------------------------
(* api/main.py: startup and the /recommend endpoint *)

\* where books_features.csv comes from: it exists locally, it is downloaded
\* from the hub, or neither works
CsvSources == {"local", "hub", "none"}

\* final scores the recommender can return, in tenths: -1.2, -0.5, 9.5, 10.2
ScoreVals == {0 - 12, 0 - 5, 95, 102}

Envs ==
    UNION {[csv : CsvSources, engine : {"ok", "fails"}, nindex : 1..MaxCorpus,
            scores : [1..n -> ScoreVals]] : n \in 1..MaxCorpus}

\* what the try block of load_recommender raises
LoadError(env) ==
    IF env.csv = "none" THEN "ConnectionError"
    ELSE IF env.engine = "fails" THEN "FileNotFoundError"
    ELSE "none"

\* a handler that catches nothing
ExceptExceptionNever(e) == FALSE

\* except Exception as e
ExceptException(e) == e \in {"ConnectionError", "FileNotFoundError", "IndexError"}

DigitChars == <<"0", "1", "2", "3", "4", "5", "6", "7", "8", "9">>

RECURSIVE IntDigits(_)
\* the decimal digits of a natural number
IntDigits(n) ==
    IF n < 10 THEN <<DigitChars[n + 1]>>
    ELSE IntDigits(n \div 10) \o <<DigitChars[(n % 10) + 1]>>

Abs(n) == IF n < 0 THEN 0 - n ELSE n

\* advanced_transformer_recommender.safe_str on a score: str(val).strip()
ScoreStr(n) ==
    (IF n < 0 THEN <<"-">> ELSE <<>>)
    \o IntDigits(Abs(n) \div 10) \o <<".">> \o IntDigits(Abs(n) % 10)

\* ord(c)
Ord(c) ==
    IF c = "-" THEN 45
    ELSE IF c = "." THEN 46
    ELSE 47 + (CHOOSE d \in 1..10 : DigitChars[d] = c)

RECURSIVE StrLess(_, _)
\* a < b for two str
StrLess(a, b) ==
    IF b = <<>> THEN FALSE
    ELSE IF a = <<>> THEN TRUE
    ELSE IF Head(a) # Head(b) THEN Ord(Head(a)) < Ord(Head(b))
    ELSE StrLess(Tail(a), Tail(b))

\* the ids FAISS returns: distinct positions of the index
IndexHits(env) ==
    {ids \in [1..MinOf(PoolSize, env.nindex) -> 1..env.nindex] :
        \A i, j \in DOMAIN ids : ids[i] = ids[j] => i = j}

\* recommender.recommend: the candidates by descending final_score, every
\* column passed through safe_str
Rankings(env, ids) ==
    {[i \in 1..Len(ids) |->
         [record_id |-> ids[q[i]], final_score |-> ScoreStr(env.scores[ids[q[i]]])]] :
       q \in SortValues([i \in 1..Len(ids) |-> env.scores[ids[i]]])}

\* books.sort(key=lambda b: score_map[b.record_id], reverse=True) on the
\* rows the database returned, in whatever order it returned them
SortedByScoreMap(ranked) ==
    {[i \in 1..Len(ranked) |-> ranked[q[i]].record_id] :
       q \in {p \in Perms(Len(ranked)) :
                 \A i, j \in 1..Len(ranked) :
                     i < j => ~StrLess(ranked[p[i]].final_score, ranked[p[j]].final_score)}}

ApiInit ==
    /\ OrchOff
    /\ fn = "api"
    /\ arg \in Envs
    /\ ret = [server |-> "starting", recommender |-> "unset", status |-> 0,
              ranked |-> <<>>, body |-> <<>>]

\* @app.on_event("startup")
ApiLoadRecommender ==
    /\ ret.server = "starting"
    /\ ret' = [ret EXCEPT
                 !.server = IF LoadError(arg) = "none" \/ ExceptException(LoadError(arg))
                            THEN "up" ELSE "crashed",
                 !.recommender = IF LoadError(arg) = "none" THEN "loaded" ELSE "None"]
    /\ UNCHANGED <<ovars, fn, arg>>

\* POST /recommend
ApiRecommend ==
    /\ ret.server = "up"
    /\ ret.status = 0
    /\ IF ret.recommender = "None"
       THEN ret' = [ret EXCEPT !.status = 503, !.ranked = <<>>, !.body = <<>>]
       ELSE \E ids \in IndexHits(arg) :
              IF \E i \in 1..Len(ids) : ids[i] > Len(arg.scores)
              THEN ret' = [ret EXCEPT !.status = 500, !.ranked = <<>>, !.body = <<>>]
              ELSE \E ranked \in Rankings(arg, ids) :
                     \E body \in SortedByScoreMap(ranked) :
                        ret' = [ret EXCEPT !.status = 200, !.ranked = ranked,
                                           !.body = body]
    /\ UNCHANGED <<ovars, fn, arg>>

\* the response is sent; the service waits for the next request
ApiResponseSent ==
    /\ ret.status # 0
    /\ ret' = [ret EXCEPT !.status = 0, !.ranked = <<>>, !.body = <<>>]
    /\ UNCHANGED <<ovars, fn, arg>>

ApiNext ==
    \/ ApiLoadRecommender
    \/ ApiRecommend
    \/ ApiResponseSent

ApiSpec == ApiInit /\ [][ApiNext]_vars

-----------------------------------------------------------------------------
(* Properties *)

OutItems == files["out"].items
OutKeys == {OutItems[i].key : i \in 1..Len(OutItems)}
OutRids == {OutItems[i].rid : i \in 1..Len(OutItems)}

\* C1: the checkpoint's result list never holds two results with the same
\* book_key, whatever the completion order, the duplicates inside the input
\* and the kills and resumes.
C1_NoDuplicateKeys ==
    \A i, j \in 1..Len(OutItems) : i # j => OutItems[i].key # OutItems[j].key

\* the key set an uninterrupted run leaves on disk
UninterruptedKeys ==
    {RowKey(r) : r \in {q \in Rows : orch = "thread" \/ Outcome(q) = "FOUND"}}

\* C2: resume law: every run that completes, whether it is the first process
\* or a resume after a kill, an interrupt or a crash of an earlier one, leaves
\* the same set of book_keys on disk as an uninterrupted run.
C2_ResumeLaw ==
    (phase = "Done" /\ mode = "normal") => OutKeys = UninterruptedKeys

\* C2 witness: a resumed process that loaded a checkpoint with records in it,
\* had rows left to query and ran to completion.
C2_Witness ==
    /\ phase = "Done" /\ mode = "normal" /\ runs > 1
    /\ seen0 # {} /\ queried # {}
    /\ OutKeys # seen0

\* C3: every step, a kill inside save_atomic included, leaves the file at the
\* output path as it was or replaces it by the complete snapshot of the
\* in-memory list; it is never a partially written file.
C3_AtomicSnapshot ==
    [][files'["out"] = files["out"] \/ files'["out"] = Complete(saved)]_vars

\* C3 witness: the process was killed inside save_atomic, after the temporary
\* file was opened and before it was fully written, over an earlier snapshot.
C3_Witness ==
    /\ phase = "Killed"
    /\ files["tmp"].st = "partial"
    /\ files["out"].st = "complete" /\ Len(OutItems) > 0

\* C4: after an interrupt, every result whose adapter queries had finished
\* before the interrupt is in the on-disk checkpoint when the process exits.
C4_NoResultLost ==
    (phase = "Done" /\ mode = "interrupted") => finishedAtInt \subseteq OutRids

\* C5: on every exit path after Init (completion, interrupt, exception while
\* a row is processed or collected) the result list read back from the
\* checkpoint equals the in-memory result list at exit.
C5_FinalFlushOnEveryExit ==
    phase \in {"Done", "Crashed"} => LoadExisting(files["out"]) = saved

\* C6: once the interrupt is received, no adapter query is started for a row
\* whose processing had not begun.
C6_NoNewQueriesAfterInterrupt ==
    [][mode = "interrupted" => queried' \subseteq queried]_vars

\* C7: no adapter query is issued for a row whose book_key is in the seen set
\* loaded from the checkpoint at the start of the run.
C7_SeenRowsNeverQueried ==
    \A q \in queried : RowKey(q[1]) \notin seen0

\* C7 witness: a resumed process that skipped rows already in the checkpoint
\* and queried the others.
C7_Witness ==
    /\ runs > 1
    /\ \E r \in Rows : RowKey(r) \in seen0
    /\ queried # {}

\* C8: in a run that completes, every work-set row is recorded at most once,
\* its book_key is in the checkpoint, and its status is FOUND when an adapter
\* matched and MISSING when none did.
C8_EveryRowRecorded ==
    (phase = "Done" /\ mode = "normal") =>
        \A r \in Rows : RowKey(r) \notin seen0 =>
            /\ RowKey(r) \in OutKeys
            /\ Cardinality({i \in 1..Len(OutItems) : OutItems[i].rid = r}) <= 1
            /\ \A i \in 1..Len(OutItems) : OutItems[i].rid = r =>
                  OutItems[i].status = (IF FirstHit(r) = 0 THEN "MISSING" ELSE "FOUND")

\* C9: no error met while one record is handled reaches the orchestrator loop.
C9_ErrorsAbsorbed ==
    mode # "failed"

\* C10: with the input table missing or the checkpoint corrupt, the run aborts
\* before any adapter query and leaves the checkpoint file untouched.
C10_FatalStartupAborts ==
    (~inputOK \/ out0.st = "corrupt") =>
        /\ phase \in {"Start", "Aborted"}
        /\ queried = {}
        /\ files["out"] = out0

\* C10 witness: a run aborted on a corrupt checkpoint with the input present.
C10_Witness ==
    /\ phase = "Aborted" /\ inputOK
    /\ out0.st = "corrupt"

\* C11: at every instant the number of rows whose adapter queries are in
\* flight is at most the concurrency bound of the orchestrator that runs.
C11_BoundedInFlight ==
    Cardinality(InState("running")) <=
        (IF orch = "thread" THEN MAX_WORKERS ELSE CONCURRENCY_LIMIT)

\* C11 witness: the bound is reached while another row is still waiting for
\* a slot.
C11_Witness ==
    /\ orch = "async"
    /\ Cardinality(InState("running")) = CONCURRENCY_LIMIT
    /\ InState("pending") # {}

IsPrefix(s, t) == Len(s) <= Len(t) /\ SubSeq(t, 1, Len(s)) = s

C25_PriorityOrderFirstMatchStops ==
    \A q \in queried :
        LET r == q[1]
            c == Chain(r)
        IN \E i \in 1..Len(c) :
               /\ c[i] = q[2]
               /\ \A j \in 1..(i - 1) :
                      /\ <<r, c[j]>> \in queried
                      /\ resp[r][c[j]] \notin {"match", "incomplete"}

\* C25 witness: the short-title adapter matched for a row and the title-only
\* adapter, which would match too, was not queried.
C25_Witness ==
    /\ orch = "async"
    /\ \E r \in Rows :
          /\ HasColon(r)
          /\ <<r, 2>> \in queried
          /\ <<r, 3>> \notin queried
          /\ resp[r][3] = "match"

\* C26: a run moves Init -> Draining -> Flushing -> Done (or is refused at
\* startup, or killed from outside): no query before the checkpoint is
\* loaded, no append after the final flush began, and Draining is left only
\* towards Flushing.
C26_Lifecycle ==
    [][/\ phase = "Start" => (phase' \in {"Start", "Draining", "Aborted"} /\ queried' = {})
       /\ phase = "Draining" => phase' \in {"Draining", "Flushing", "Killed"}
       /\ phase = "Flushing" =>
              /\ phase' \in {"Flushing", "Done", "Killed"}
              /\ phase' # "Killed" => saved' = saved]_vars

\* C27: every snapshot that replaces a snapshot at the output path, in the
\* same run or in a later one, extends it: the earlier results are all
\* there, unchanged and at the same positions.
C27_SnapshotsAppendOnly ==
    [][(files["out"].st = "complete" /\ files'["out"] # files["out"]) =>
           /\ files'["out"].st = "complete"
           /\ IsPrefix(files["out"].items, files'["out"].items)]_vars

\* C27 witness: a resumed run has replaced a non-empty checkpoint of an
\* earlier run by a longer one.
C27_Witness ==
    /\ runs > 1
    /\ out0.items # <<>>
    /\ Len(files["out"].items) > Len(out0.items)

\* C28: while a run is Draining and not saving, fewer than SAVE_EVERY of
\* the results in memory are missing from the on-disk snapshot.
C28_UnsavedBelowInterval ==
    (phase = "Draining" /\ mode = "normal" /\ savePc = "idle") =>
        Len(saved) - Len(files["out"].items) < SAVE_EVERY

\* C28 witness: a resumed run that started from a checkpoint whose length
\* is not a multiple of SAVE_EVERY has just decided to flush.
C28_Witness ==
    /\ runs > 1
    /\ phase = "Draining"
    /\ savePc = "open"
    /\ Len(out0.items) % SAVE_EVERY # 0

-----------------------------------------------------------------------------
(* Properties of the recommenders (ScoreSpec) *)

Ranked == ret.stage = "ranked"

\* the book behind the i-th candidate of the pool
Cand(i) == arg[ret.pool[i]]

\* C13: with a reranker every candidate's final_score is
\* 0.65*rerank_score + 0.25*depth_score + 0.10*summary_bonus (in units of
\* 1e-5), so the pool A(0.9, "320"), B(0.85, "50") scores 0.765 and 0.6525.
C13_RerankerBlend ==
    (fn = "advanced" /\ Ranked) =>
        \A i \in 1..Len(ret.pool) :
            ret.scores[i] = 650 * Cand(i).cross
                            + 25 * extract_page_count(Cand(i).pages)
                            + 10000 * summary_bonus(Cand(i))

\* C14 as stated: without a reranker every candidate's final_score is its
\* retrieval score alone and the output order is the retrieval order.
C14_RetrievalScoreAlone ==
    (fn = "basic" /\ Ranked) =>
        /\ \A i \in 1..Len(ret.pool) : ret.scores[i] = 1000 * Cand(i).sim
        /\ ret.ranked = [i \in 1..Len(ret.pool) |-> i]

\* C14 amended: without a reranker every candidate's final_score is
\* 0.70*retrieval_score + 0.20*depth_score + 0.10*summary_bonus (depth_score
\* the first number of the pages text over 1000, 0 without one), and the
\* ranked output is in descending order of that score.
C14_BasicBlend ==
    (fn = "basic" /\ Ranked) =>
        /\ \A i \in 1..Len(ret.pool) :
              ret.scores[i] =
                  700 * Cand(i).sim
                  + 20 * (IF Cand(i).pages = NaNCell THEN 0
                          ELSE FirstDigits(Cand(i).pages.toks))
                  + (IF Cand(i).summary THEN 10000 ELSE 0)
        /\ \A i, j \in 1..Len(ret.ranked) :
              i < j => ret.scores[ret.ranked[i]] >= ret.scores[ret.ranked[j]]

\* C14 witness: a basic ranking in which depth and summary put a candidate
\* ahead of one with a strictly higher retrieval score.
C14_Witness ==
    /\ fn = "basic"
    /\ Ranked
    /\ Len(ret.out) >= 2
    /\ Cand(ret.out[1]).sim < Cand(ret.out[2]).sim
    /\ ret.scores[ret.out[1]] > ret.scores[ret.out[2]]

\* C15: two candidates with equal final_score appear in the ranked output
\* in their retrieval order.
C15_TiesKeepRetrievalOrder ==
    Ranked =>
        \A i, j \in 1..Len(ret.ranked) :
            (i < j /\ ret.scores[ret.ranked[i]] = ret.scores[ret.ranked[j]])
                => ret.ranked[i] < ret.ranked[j]

\* C16: the output never holds more than top_k candidates (none for a
\* top_k below 0), and for top_k >= 0 it is the first min(top_k, pool size)
\* candidates of the sorted pool.
C16_TruncatedToTopK ==
    Ranked =>
        /\ Len(ret.out) <= MaxOf(ret.top_k, 0)
        /\ ret.top_k >= 0 =>
              ret.out = SubSeq(ret.ranked, 1, MinOf(ret.top_k, Len(ret.ranked)))

\* C17: the candidate pool is in descending order of similarity, holds at
\* most pool_size candidates, and candidates of equal similarity are in the
\* order of their positions in the index.
C17_PoolOrdered ==
    ret.stage # "called" =>
        /\ Len(ret.pool) <= PoolSize
        /\ \A i, j \in 1..Len(ret.pool) :
              i < j =>
                  /\ arg[ret.pool[i]].sim >= arg[ret.pool[j]].sim
                  /\ arg[ret.pool[i]].sim = arg[ret.pool[j]].sim
                         => ret.pool[i] < ret.pool[j]

-----------------------------------------------------------------------------
(* Properties of the normalisers (NormSpec) *)

\* C19: normalize_title and normalize_isbn (in both modules) are idempotent
\* for all inputs: applied to its own output, also an empty or null one,
\* the function returns that output unchanged.
C19_NormalizersIdempotent ==
    ret.stage = "twice" => ret.again = ret.out

-----------------------------------------------------------------------------
(* Properties of the cleaner (CleanSpec) *)

Cleaned == ret.stage # "called"

\* the normalized ISBN of input row i
IsbnOf(i) == normalize_isbn(arg[i].isbn)

\* the retained rows whose ISBN is v
Retained(v) == {k \in 1..Len(ret.rows) : ret.rows[k].isbn = v}

\* C18 as stated: among all input rows with the same normalized ISBN
\* exactly one is retained, the first of them in input order.
C18_FirstIsbnRowWins ==
    Cleaned =>
        \A i \in 1..Len(arg) :
            ~IsbnOf(i).none =>
                \E k \in 1..Len(ret.rows) :
                    /\ Retained(IsbnOf(i)) = {k}
                    /\ ret.rows[k].src =
                           Min({j \in 1..Len(arg) : IsbnOf(j) = IsbnOf(i)})

\* C18 amended: among the input rows that have a title and the same
\* normalized ISBN exactly one is retained, the first of those rows in
\* input order, whatever the later rows hold.
C18_FirstTitledIsbnRowWins ==
    Cleaned =>
        \A i \in 1..Len(arg) :
            (~arg[i].title.none /\ ~IsbnOf(i).none) =>
                \E k \in 1..Len(ret.rows) :
                    /\ Retained(IsbnOf(i)) = {k}
                    /\ ret.rows[k].src =
                           Min({j \in 1..Len(arg) :
                                   ~arg[j].title.none /\ IsbnOf(j) = IsbnOf(i)})

\* C18 witness: the first row with some ISBN has no title, two later rows
\* with that ISBN, written differently and by different authors, have one,
\* and the earlier of the two is the retained row.
C18_Witness ==
    /\ Cleaned
    /\ Len(arg) = 3
    /\ arg[1].title.none
    /\ ~arg[2].title.none /\ ~arg[3].title.none
    /\ ~IsbnOf(1).none /\ IsbnOf(2) = IsbnOf(1) /\ IsbnOf(3) = IsbnOf(1)
    /\ arg[2].isbn # arg[3].isbn
    /\ arg[2].author_editor # arg[3].author_editor
    /\ \E k \in 1..Len(ret.rows) : ret.rows[k].src = 2

\* the triple a record id is made of
Triple(r) == <<r.title, r.author_editor, r.isbn>>

\* C20: wherever a record_id is assigned, two rows that agree on the
\* normalized (title, author, isbn) triple have the same record_id.
C20_RecordIdPure ==
    ret.stage = "loaded" =>
        LET all == ret.rows \o ret.loaded
        IN \A i, j \in 1..Len(all) :
               Triple(all[i]) = Triple(all[j]) => all[i].record_id = all[j].record_id

-----------------------------------------------------------------------------
(* Properties of two instances on one checkpoint (SharedSpec) *)

\* C29: with two instances saving to the same checkpoint file, whatever is
\* visible at the output path is one complete snapshot written by a single
\* instance.
C29_SharedCheckpointNeverCorrupt ==
    \/ ret.fs["out"] = Absent
    \/ \E i \in Instances : ret.fs["out"] = Complete(arg[i])

-----------------------------------------------------------------------------
(* Properties of the loader (LoaderSpec) *)

\* no two rows of the table have the same book_key
OneRowPerKey(table) ==
    \A i, j \in 1..Len(table) : i # j => table[i].book_key # table[j].book_key

\* C23: after every run_loader call the books table holds at most one row
\* per book_key, every row that was there is still there unchanged, and a
\* load of a non-empty file succeeds also when it offers existing keys.
C23_OneRowPerKeyNeverUpdated ==
    [][/\ OneRowPerKey(ret'.table)
       /\ IsPrefix(ret.table, ret'.table)
       /\ (ret'.file.exists /\ ret'.file.records # <<>>) => ret'.last = "ok"]_vars

\* C23 witness: a later load offered, for a stored book_key, a record with
\* other content; the load succeeded and the stored row is the old one.
C23_Witness ==
    /\ ret.loads = 2
    /\ ret.last = "ok"
    /\ \E k \in 1..Len(ret.file.records), i \in 1..Len(ret.table) :
          /\ ret.file.records[k].book_key = ret.table[i].book_key
          /\ ret.file.records[k].status = "FOUND"
          /\ ret.table[i].status = "MISSING"

-----------------------------------------------------------------------------
(* Properties of the API (ApiSpec) *)

\* the startup could not load the features, the index or the models
LoadFailed == arg.csv = "none" \/ arg.engine = "fails"

\* C21: a failed load does not bring the service down; every /recommend
\* request is then answered with 503, and a request reaches the recommender
\* only when it was loaded.
C21_FailedLoadAnswers503 ==
    /\ ret.server # "crashed"
    /\ (LoadFailed /\ ret.status # 0) => ret.status = 503
    /\ ret.status \in {200, 500} => (~LoadFailed /\ ret.recommender = "loaded")

\* C21 witness: the load failed, the service is up and has answered 503.
C21_Witness ==
    /\ LoadFailed
    /\ ret.server = "up"
    /\ ret.status = 503

\* C22: no /recommend request is served while the number of index entries
\* differs from the number of records.
C22_NoServingFromMismatch ==
    ret.status = 200 => arg.nindex = Len(arg.scores)

\* C30: the /recommend response lists the books in descending numeric
\* order of the final_score the recommender gave them.
C30_ResponseInRankedOrder ==
    ret.status = 200 =>
        \A i, j \in 1..Len(ret.body) :
            i < j => arg.scores[ret.body[i]] >= arg.scores[ret.body[j]]
====
